---- MODULE Spec2Model ----
(***************************************************************************)
(* Job scheduler of the expense-tracking backend.                          *)
(*                                                                         *)
(* app/utils/scheduler.py owns the module global `scheduler` (one          *)
(* APScheduler BackgroundScheduler or None); app/routers/settings.py holds *)
(* the three per-user endpoints (enable, disable, reschedule) and its own  *)
(* binding of the name `scheduler`, taken by `from ... import scheduler`   *)
(* when the module is loaded; app/db/dynamo.py persists the per-user       *)
(* schedule in the user's item of the Users table.                         *)
(***************************************************************************)
EXTENDS Integers, FiniteSets, Sequences, TLC

VARIABLES
    users_table,          \* dynamo.users_table: user id -> stored item
    scheduler,            \* app.utils.scheduler.scheduler (module global)
    settings_scheduler,   \* the name `scheduler` bound in app.routers.settings
    last,                 \* the last completed operation and what it returned
    finance_analyzer,     \* a FinanceAnalyzer instance, as constructed
    expenses,             \* the expense records of one user and month
    answer,               \* the last call on the analyzer or the notification
                          \* rule engine: its arguments and what it returned
    requests,             \* the requests served concurrently: for each worker
                          \* thread its request, its position in the handler
                          \* and the locals of the handler
    orphans               \* the BackgroundScheduler objects the global held
                          \* and was made to drop without a shutdown

vars == <<users_table, scheduler, settings_scheduler, last>>

analyzer_vars == <<finance_analyzer, expenses, answer>>

request_vars == <<requests, orphans>>

----------------------------------------------------------------------------
(* Bounds and program constants *)

NumUsers == 2

MinDay == 1
MaxDay == 31
MinHour == 0
MaxHour == 23
MinMinute == 0
MaxMinute == 59

DefaultDay == 1
DefaultHour == 6
DefaultMinute == 0

TestIntervalMinutes == 2

Users == 1..NumUsers

----------------------------------------------------------------------------
(* Values *)

\* Python's None, for the scheduler global and for absent settings.
None == [obj |-> FALSE]

\* The item put_user stores at registration: no scheduler_* attribute yet
\* (initialize_default_scheduler_settings finds the item and writes nothing).
NewUserItem(u) == [user_id |-> u]

\* dict.get(key, default) on a stored item.
ItemGet(item, key, default) == IF key \in DOMAIN item THEN item[key] ELSE default

IntervalTrigger(m) == [type |-> "interval", minutes |-> m]
CronTrigger(d, h, m) == [type |-> "cron", day |-> d, hour |-> h, minute |-> m]

\* id="monthly_expense_reports" and f"monthly_expense_reports_{user_id}"
SystemJobId == <<"monthly_expense_reports">>
UserJobId(u) == <<"monthly_expense_reports", u>>

\* BackgroundScheduler(): a fresh scheduler, not running, without jobs.
BackgroundScheduler == [obj |-> TRUE, running |-> FALSE, jobs |-> {}]

\* scheduler.get_job(job_id): the job or None
get_job(s, id) ==
    IF \E j \in s.jobs : j.id = id
    THEN CHOOSE j \in s.jobs : j.id = id
    ELSE None

\* scheduler.add_job(..., id=id, trigger=t, replace_existing=True)
add_job(s, id, t) ==
    [s EXCEPT !.jobs = {j \in s.jobs : j.id /= id} \cup {[id |-> id, trigger |-> t]}]

\* scheduler.remove_job(id); JobLookupError when absent (callers swallow it)
remove_job(s, id) == [s EXCEPT !.jobs = {j \in s.jobs : j.id /= id}]

\* scheduler.reschedule_job(id, trigger=t): in place, the job stays registered
reschedule_job(s, id, t) ==
    [s EXCEPT !.jobs = {IF j.id = id THEN [j EXCEPT !.trigger = t] ELSE j : j \in s.jobs}]

----------------------------------------------------------------------------
(* app/db/dynamo.py: the per-user scheduler settings.  Every call to the    *)
(* table may fail with a ClientError; the flag of a call says whether it   *)
(* went through.                                                           *)

\* get_scheduler_settings(user_id): the settings dict, None on a ClientError.
\* (Every authenticated user has an item: no code path deletes one.)
get_scheduler_settings(tbl, u, ok) ==
    IF ok
    THEN [obj |-> TRUE,
          day |-> ItemGet(tbl[u], "scheduler_day", DefaultDay),
          hour |-> ItemGet(tbl[u], "scheduler_hour", DefaultHour),
          minute |-> ItemGet(tbl[u], "scheduler_minute", DefaultMinute),
          enabled |-> ItemGet(tbl[u], "scheduler_enabled", FALSE)]
    ELSE None

\* The item save_scheduler_settings builds from the existing one (every
\* caller passes enabled as a bool; updated_at is not modelled).
SchedulerItem(item, day, hour, minute, enabled) ==
    [k \in DOMAIN item \cup {"scheduler_day", "scheduler_hour",
                             "scheduler_minute", "scheduler_enabled"} |->
        CASE k = "scheduler_day" -> day
          [] k = "scheduler_hour" -> hour
          [] k = "scheduler_minute" -> minute
          [] k = "scheduler_enabled" -> enabled
          [] OTHER -> item[k]]

\* save_scheduler_settings(user_id, day, hour, minute, enabled): True when the
\* item was put; False when get_user_by_id found nothing (its ClientError is
\* swallowed into None, then "User not found") or put_item failed.
save_scheduler_settings(tbl, u, day, hour, minute, enabled, readOk, putOk) ==
    IF readOk /\ putOk
    THEN [ret |-> TRUE,
          table |-> [tbl EXCEPT ![u] = SchedulerItem(tbl[u], day, hour, minute, enabled)]]
    ELSE [ret |-> FALSE, table |-> tbl]

\* initialize_default_scheduler_settings(user_id): writes the defaults when
\* get_scheduler_settings returned None; the result of the save is dropped.
initialize_default_scheduler_settings(tbl, u, getOk, readOk, putOk) ==
    IF get_scheduler_settings(tbl, u, getOk) = None
    THEN [ret |-> TRUE,
          table |-> save_scheduler_settings(tbl, u, DefaultDay, DefaultHour,
                                            DefaultMinute, FALSE, readOk, putOk).table]
    ELSE [ret |-> FALSE, table |-> tbl]

\* get_all_users_with_scheduler_enabled(): scan for scheduler_enabled = True;
\* [] on a ClientError.
get_all_users_with_scheduler_enabled(tbl, ok) ==
    IF ok
    THEN {u \in Users : ItemGet(tbl[u], "scheduler_enabled", FALSE) = TRUE}
    ELSE {}

----------------------------------------------------------------------------
(* app/utils/scheduler.py and app/utils/lambda_scheduler.py *)

\* A start that builds and starts a new scheduler even when one is set.
start_scheduler_Restart(s) ==
    [add_job(BackgroundScheduler, SystemJobId, IntervalTrigger(TestIntervalMinutes))
        EXCEPT !.running = TRUE]

\* start_scheduler(): no-op when the global is set; otherwise a new
\* BackgroundScheduler with the single job "monthly_expense_reports" on
\* IntervalTrigger(minutes=2), then scheduler.start().
start_scheduler(s) ==
    IF s /= None
    THEN s
    ELSE [add_job(BackgroundScheduler, SystemJobId, IntervalTrigger(TestIntervalMinutes))
            EXCEPT !.running = TRUE]

\* stop_scheduler(): shutdown() and scheduler = None, when the global is set.
stop_scheduler(s) == IF s /= None THEN None ELSE s

\* refresh_scheduler_jobs(): `pass`.
refresh_scheduler_jobs(s, tbl) == s

\* get_scheduler_status()
get_scheduler_status(s) ==
    IF s = None
    THEN [running |-> FALSE, jobs |-> {}]
    ELSE [running |-> s.running, jobs |-> {j.id : j \in s.jobs}]

\* trigger_monthly_reports(): the payload carries every user the scan returns;
\* no invocation when the scan returns none.  scan = "error" is an exception
\* of the scan that is no ClientError (it leaves the function); lam is what
\* invoke_lambda_function returns (it catches everything itself).
trigger_monthly_reports(tbl, scan, lam) ==
    LET enabled_user_ids == get_all_users_with_scheduler_enabled(tbl, scan = "ok")
    IN  CASE scan = "error" ->
               [raised |-> TRUE, success |-> FALSE, invoked |-> FALSE, user_ids |-> {}]
          [] scan /= "error" /\ enabled_user_ids = {} ->
               [raised |-> FALSE, success |-> TRUE, invoked |-> FALSE, user_ids |-> {}]
          [] OTHER ->
               [raised |-> FALSE, success |-> (lam = "success"), invoked |-> TRUE,
                user_ids |-> enabled_user_ids]

\* The job without its try/except: an exception of the trigger leaves it.
monthly_reports_job_NoCatch(tbl, scan, lam) ==
    LET result == trigger_monthly_reports(tbl, scan, lam)
    IN  [propagated |-> result.raised,
         outcome |-> IF result.raised THEN "raised"
                     ELSE IF result.success THEN "success" ELSE "failed",
         invoked |-> result.invoked,
         user_ids |-> result.user_ids]

\* monthly_reports_job(): try/except Exception around the trigger; the job
\* logs and returns in every case.
monthly_reports_job(tbl, scan, lam) ==
    LET result == trigger_monthly_reports(tbl, scan, lam)
    IN  [propagated |-> FALSE,
         outcome |-> IF result.raised THEN "raised"
                     ELSE IF result.success THEN "success" ELSE "failed",
         invoked |-> result.invoked,
         user_ids |-> result.user_ids]

----------------------------------------------------------------------------
(* app/routers/settings.py *)

\* The range checks with the upper limit of the day left out.
ValidSchedule_NoDayLimit(day, hour, minute) ==
    /\ MinDay <= day
    /\ MinHour <= hour /\ hour <= MaxHour
    /\ MinMinute <= minute /\ minute <= MaxMinute

\* The range checks with the upper limit of the minute left out.
ValidSchedule_NoMinuteLimit(day, hour, minute) ==
    /\ MinDay <= day /\ day <= MaxDay
    /\ MinHour <= hour /\ hour <= MaxHour
    /\ MinMinute <= minute

\* The range checks of update_scheduler_schedule.
ValidSchedule(day, hour, minute) ==
    /\ MinDay <= day /\ day <= MaxDay
    /\ MinHour <= hour /\ hour <= MaxHour
    /\ MinMinute <= minute /\ minute <= MaxMinute

\* `scheduler is None or not scheduler.running` / `scheduler and
\* scheduler.running`, on the name bound in the settings module.
SettingsSeesRunning(ss) == ss /= None /\ ss.running

\* The registry part of start_scheduler_endpoint.  The name it tests is the
\* one imported when the module was loaded; with it unset the endpoint calls
\* start_scheduler().  The other branch begins with
\* `from app.utils.scheduler import monthly_reports_job_for_user`, a name
\* that module does not define: ImportError, caught by the outer handler.
EnableRegistry(ss, s, u, day, hour, minute) ==
    IF ~SettingsSeesRunning(ss)
    THEN [status |-> 200, scheduler |-> start_scheduler(s)]
    ELSE [status |-> 500, scheduler |-> s]

\* A disable that shuts the whole scheduler down.
DisableRegistry_StopsScheduler(ss, s, u) ==
    [status |-> 200, scheduler |-> stop_scheduler(s)]

\* The registry part of stop_scheduler_endpoint: remove_job on the bound
\* name when it is set and running (the object the global holds, were it
\* bound), JobLookupError swallowed; never stop_scheduler().
DisableRegistry(ss, s, u) ==
    IF SettingsSeesRunning(ss)
    THEN [status |-> 200, scheduler |-> remove_job(s, UserJobId(u))]
    ELSE [status |-> 200, scheduler |-> s]

\* The registry part of update_scheduler_schedule: only for an enabled user
\* with the bound name set and running, and then the same failing import.
RescheduleRegistry(ss, s, u, enabled, day, hour, minute) ==
    IF enabled /\ SettingsSeesRunning(ss)
    THEN [status |-> 500, scheduler |-> s]
    ELSE [status |-> 200, scheduler |-> s]

\* What enable and disable read first: the settings, after the defaults were
\* initialised when the first read returned None.
LoadSettings(tbl, u, f) ==
    LET first == get_scheduler_settings(tbl, u, f.get1)
        init == IF first = None
                THEN initialize_default_scheduler_settings(tbl, u, f.initGet,
                                                           f.initRead, f.initPut)
                ELSE [ret |-> FALSE, table |-> tbl]
    IN  [table |-> init.table,
         db_settings |-> IF first = None
                         THEN get_scheduler_settings(init.table, u, f.get2)
                         ELSE first]

\* Outcomes of the table calls of one enable or disable request, in call
\* order: get_scheduler_settings, then (only after a None) the three calls of
\* initialize_default_scheduler_settings and the second get, then the read
\* and the put of save_scheduler_settings.  A call that is not made counts as
\* having gone through.
EnableDbOutcomes ==
    {f \in [get1 : BOOLEAN, initGet : BOOLEAN, initRead : BOOLEAN, initPut : BOOLEAN,
            get2 : BOOLEAN, read : BOOLEAN, put : BOOLEAN] :
        /\ f.get1 => (f.initGet /\ f.get2)
        /\ f.initGet => (f.initRead /\ f.initPut)
        /\ ~f.initRead => f.initPut
        /\ ~f.get2 => (f.read /\ f.put)
        /\ ~f.read => f.put}

\* Outcomes of the table calls of one reschedule request.
RescheduleDbOutcomes ==
    {f \in [get1 : BOOLEAN, read : BOOLEAN, put : BOOLEAN] : ~f.read => f.put}

\* Request bodies of PUT /scheduler/schedule: the default and the highest
\* in-range schedule, and each field one step below and one step above its
\* range with the other two in range.
ScheduleInputs ==
    {<<DefaultDay, DefaultHour, DefaultMinute>>, <<MaxDay, MaxHour, MaxMinute>>,
     <<MinDay - 1, MinHour, MinMinute>>, <<MaxDay + 1, MaxHour, MaxMinute>>,
     <<MinDay, MinHour - 1, MinMinute>>, <<MaxDay, MaxHour + 1, MaxMinute>>,
     <<MinDay, MinHour, MinMinute - 1>>, <<MaxDay, MaxHour, MaxMinute + 1>>}

----------------------------------------------------------------------------
(* app/utils/analyzer.py: FinanceAnalyzer.  Amounts and thresholds are       *)
(* counted in thousandths of the currency unit, so that amounts below one  *)
(* cent exist and round(x, 2) has something to round: 240 stands for 0.24.  *)
(* A dict is a function on its keys; spike_sigma and buffer_percentage are  *)
(* fractions [num, den] with den > 0.                                        *)

\* Category names, in the order in which input lists introduce them.
CategoryNames == <<"Food", "Rent", "Shopping", "Travel", "Health", "Misc">>

\* {}
EmptyDict == [c \in {} |-> 0]

\* `if d:` on an Optional[dict]: false for None and for the empty dict.
Truthy(d) == d /= None /\ DOMAIN d /= {}

\* round(x, 2) left out.
Round2_Identity(num, den) == num \div den

\* round(num / den, 2) in thousandths: the nearest multiple of 10 (one
\* cent).  On a decimal half round() follows the binary value of the float;
\* the one half the inputs below produce is 0.005 (the average of a category
\* total of 0.01 over two records), whose float lies above the half.
Round2(num, den) ==
    LET step == 10 * den
        q == num \div step
        r == num - q * step
    IN  IF 2 * r < step THEN 10 * q ELSE 10 * (q + 1)

\* float(exp.get("amount", 0))
Amount(exp) == ItemGet(exp, "amount", 0)

RECURSIVE SumAmounts(_), monthly_total_RoundsEach(_)
\* sum(float(exp.get("amount", 0)) for exp in exps)
SumAmounts(exps) ==
    IF exps = <<>> THEN 0 ELSE Amount(Head(exps)) + SumAmounts(Tail(exps))

RECURSIVE SumSquares(_)
\* sum of the squared amounts (the population variance of pstdev needs it)
SumSquares(exps) ==
    IF exps = <<>> THEN 0
    ELSE Amount(Head(exps)) * Amount(Head(exps)) + SumSquares(Tail(exps))

\* The keys a defaultdict keyed by exp["category"] ends up with.
CategoriesOf(exps) == {exps[i].category : i \in DOMAIN exps}

\* The records of one category, in input order.
InCategory(exps, c) == SelectSeq(exps, LAMBDA e : e.category = c)

\* _load_budget_thresholds(path): {} without a path or without the file,
\* else the content of the file.  budget_config is None or that content.
load_budget_thresholds(budget_config) ==
    IF budget_config = None THEN EmptyDict ELSE budget_config

\* spike_sigma = 2.5
DefaultSpikeSigma == [num |-> 5, den |-> 2]

\* minimum_spike_amount = 250.0, in thousandths
DefaultMinimumSpikeAmount == 250 * 1000

\* FinanceAnalyzer(budget_config_path, spike_sigma, minimum_spike_amount)
FinanceAnalyzer(budget_config, spike_sigma, minimum_spike_amount) ==
    [budget_thresholds |-> load_budget_thresholds(budget_config),
     spike_sigma |-> spike_sigma,
     minimum_spike_amount |-> minimum_spike_amount]

\* load_thresholds without the bundled thresholds: the supplied map alone.
load_thresholds_OverridesOnly(self, overrides) ==
    IF Truthy(overrides) THEN overrides ELSE EmptyDict

\* load_thresholds(overrides): the bundled thresholds, updated with the
\* overrides when these are given and not empty.
load_thresholds(self, overrides) ==
    IF Truthy(overrides)
    THEN [c \in DOMAIN self.budget_thresholds \cup DOMAIN overrides |->
             IF c \in DOMAIN overrides THEN overrides[c]
             ELSE self.budget_thresholds[c]]
    ELSE self.budget_thresholds

\* monthly_total that rounds every amount before it sums.
monthly_total_RoundsEach(exps) ==
    IF exps = <<>> THEN 0
    ELSE Round2(Amount(Head(exps)), 1) + monthly_total_RoundsEach(Tail(exps))

\* monthly_total(expenses)
monthly_total(exps) == Round2(SumAmounts(exps), 1)

\* category_totals(expenses): per category the sum, each rounded on its own.
category_totals(exps) ==
    [c \in CategoriesOf(exps) |-> Round2(SumAmounts(InCategory(exps, c)), 1)]

\* overspending_categories with `>=` in place of `>`.
overspending_categories_AtThreshold(self, exps, budget_overrides) ==
    LET thresholds == load_thresholds(self, budget_overrides)
        totals == category_totals(exps)
    IN  IF DOMAIN thresholds = {} THEN EmptyDict
        ELSE [c \in {k \in DOMAIN totals :
                        k \in DOMAIN thresholds /\ totals[k] >= thresholds[k]} |->
                 totals[c]]

\* overspending_categories(expenses, budget_overrides)
overspending_categories(self, exps, budget_overrides) ==
    LET thresholds == load_thresholds(self, budget_overrides)
        totals == category_totals(exps)
    IN  IF DOMAIN thresholds = {} THEN EmptyDict
        ELSE [c \in {k \in DOMAIN totals :
                        k \in DOMAIN thresholds /\ totals[k] > thresholds[k]} |->
                 totals[c]]

\* buffer_percentage = 0.15
DefaultBuffer == [num |-> 15, den |-> 100]

\* suggest_budget that leaves the buffer out.
suggest_budget_NoBuffer(exps, buffer_percentage) ==
    [c \in CategoriesOf(exps) |->
        Round2(SumAmounts(InCategory(exps, c)), Len(InCategory(exps, c)))]

\* suggest_budget(expenses, buffer_percentage): per category
\* round(fmean(amounts) * (1 + buffer_percentage), 2).
suggest_budget(exps, buffer_percentage) ==
    [c \in CategoriesOf(exps) |->
        Round2(SumAmounts(InCategory(exps, c))
                   * (buffer_percentage.den + buffer_percentage.num),
               Len(InCategory(exps, c)) * buffer_percentage.den)]

\* z_score >= spike_sigma for one amount of the list exps, where
\* z_score = 0 when pstdev is 0 and (amount - mean) / pstdev otherwise.
\* With n records of sum S and sum of squares Q: n * (amount - mean) is
\* n * amount - S and (n * pstdev)^2 is n * Q - S^2, so the comparison is
\* made on the squares, by the sign of both sides.
ZScoreAtLeast(exps, amount, sigma) ==
    LET n == Len(exps)
        dev == n * amount - SumAmounts(exps)
        var == n * SumSquares(exps) - SumAmounts(exps) * SumAmounts(exps)
        lhs == dev * dev * sigma.den * sigma.den
        rhs == sigma.num * sigma.num * var
    IN  IF var = 0 THEN 0 >= sigma.num
        ELSE IF sigma.num >= 0 THEN dev >= 0 /\ lhs >= rhs
        ELSE dev >= 0 \/ lhs <= rhs

\* detect_spending_spikes that skips the z-score test.
detect_spending_spikes_NoZScore(self, exps) ==
    SelectSeq(exps, LAMBDA e : Amount(e) >= self.minimum_spike_amount)

\* detect_spending_spikes(expenses): the records, in input order, that are
\* at least minimum_spike_amount and whose z-score is at least spike_sigma.
detect_spending_spikes(self, exps) ==
    IF exps = <<>> THEN <<>>
    ELSE SelectSeq(exps, LAMBDA e :
             /\ ~(Amount(e) < self.minimum_spike_amount)
             /\ ZScoreAtLeast(exps, Amount(e), self.spike_sigma))

RECURSIVE CategoryOrder(_)
\* The categories in the order of their first record (the key order of the
\* dicts the analyzer builds).
CategoryOrder(exps) ==
    IF exps = <<>> THEN <<>>
    ELSE LET before == CategoryOrder(SubSeq(exps, 1, Len(exps) - 1))
             c == exps[Len(exps)].category
         IN  IF \E i \in DOMAIN before : before[i] = c THEN before
             ELSE Append(before, c)

\* summarize(expenses, budget_overrides)
summarize(self, exps, budget_overrides) ==
    IF exps = <<>>
    THEN [monthly_total |-> 0, category_totals |-> EmptyDict,
          overspending_categories |-> EmptyDict, suggested_budgets |-> EmptyDict,
          spending_spikes |-> <<>>, insights |-> <<>>]
    ELSE LET totals == [c \in CategoriesOf(exps) |->
                           Round2(SumAmounts(InCategory(exps, c)), 1)]
             suggestions == suggest_budget(exps, DefaultBuffer)
             overspent == overspending_categories(self, exps, budget_overrides)
             order == CategoryOrder(exps)
         IN  [monthly_total |-> monthly_total(exps),
              category_totals |-> totals,
              overspending_categories |-> overspent,
              suggested_budgets |-> suggestions,
              spending_spikes |-> detect_spending_spikes(self, exps),
              insights |->
                  [i \in DOMAIN order |->
                      [category |-> order[i],
                       total |-> totals[order[i]],
                       average |-> Round2(totals[order[i]],
                                          Len(InCategory(exps, order[i]))),
                       transaction_count |-> Len(InCategory(exps, order[i])),
                       overspent |-> order[i] \in DOMAIN overspent,
                       suggested_budget |-> suggestions[order[i]]]]]

----------------------------------------------------------------------------
(* app/routers/notifications.py: the notification rule engine *)

\* The parameters FinanceAnalyzer.load_thresholds accepts by keyword.
load_thresholds_keywords == {"overrides"}

\* finance_analyzer.load_thresholds(**kwargs): TypeError for a keyword the
\* method does not have.
load_thresholds_call(self, kwargs) ==
    IF DOMAIN kwargs \subseteq load_thresholds_keywords
    THEN [raised |-> FALSE,
          value |-> load_thresholds(self, ItemGet(kwargs, "overrides", None))]
    ELSE [raised |-> TRUE, value |-> None]

RECURSIVE SumValues(_)
\* sum(d.values())
SumValues(d) ==
    IF DOMAIN d = {} THEN 0
    ELSE LET k == CHOOSE k \in DOMAIN d : TRUE
         IN  d[k] + SumValues([c \in DOMAIN d \ {k} |-> d[c]])

\* The rules of generate_notifications that follow the loading of the
\* thresholds, in the order of the code; messages and titles are left out.
\* The loop over thresholds.items() is taken in the order of CategoryNames.
notification_rules(thresholds, exps, summary, month) ==
    IF exps = <<>> THEN <<>>
    ELSE
    LET totals == summary.category_totals
        overspending == summary.overspending_categories
        spending_spikes == summary.spending_spikes
        total == summary.monthly_total
        over == SelectSeq(CategoryOrder(exps), LAMBDA c : c \in DOMAIN overspending)
        exceeded ==
            [i \in DOMAIN over |->
                [type |-> "budget_exceeded", id |-> <<"overspend", over[i], month>>,
                 category |-> over[i], amount |-> overspending[over[i]],
                 threshold |-> ItemGet(thresholds, over[i], 0)]]
        near == SelectSeq(CategoryNames, LAMBDA c :
                    /\ c \in DOMAIN thresholds
                    /\ c \notin DOMAIN overspending
                    /\ ItemGet(totals, c, 0) > 0
                    /\ thresholds[c] > 0
                    /\ ItemGet(totals, c, 0) * 100 >= 80 * thresholds[c]
                    /\ ItemGet(totals, c, 0) * 100 < 100 * thresholds[c])
        approaching ==
            [i \in DOMAIN near |->
                [type |-> "approaching_budget", id |-> <<"approaching", near[i], month>>,
                 category |-> near[i], amount |-> totals[near[i]],
                 threshold |-> thresholds[near[i]]]]
        spikes ==
            IF spending_spikes = <<>> THEN <<>>
            ELSE IF Len(spending_spikes) = 1
            THEN <<[type |-> "spending_spike",
                    id |-> <<"spike", ItemGet(spending_spikes[1], "expense_id", "unknown")>>,
                    category |-> spending_spikes[1].category,
                    amount |-> Amount(spending_spikes[1])]>>
            ELSE <<[type |-> "spending_spikes", id |-> <<"spikes", month>>,
                    count |-> Len(spending_spikes),
                    total_amount |-> SumAmounts(spending_spikes)]>>
        total_threshold == SumValues(thresholds)
        high ==
            IF total_threshold > 0 /\ total > 0 /\ total * 100 >= 90 * total_threshold
            THEN <<[type |-> "high_monthly_total", id |-> <<"high_monthly", month>>,
                    total |-> total]>>
            ELSE <<>>
        good ==
            IF /\ DOMAIN overspending = {}
               /\ total > 0
               /\ \A c \in DOMAIN thresholds :
                     thresholds[c] > 0 => ItemGet(totals, c, 0) * 100 < 70 * thresholds[c]
               /\ DOMAIN totals /= {}
            THEN <<[type |-> "good_progress", id |-> <<"good_progress", month>>]>>
            ELSE <<>>
    IN  exceeded \o approaching \o spikes \o high \o good

\* generate_notifications(expenses, summary, month, user_id): its first
\* statement is finance_analyzer.load_thresholds(user_id=user_id); an
\* exception of that call leaves the function before any rule is applied.
generate_notifications(self, exps, summary, month, user_id) ==
    LET call == load_thresholds_call(self, [user_id |-> user_id])
    IN  IF call.raised
        THEN [raised |-> TRUE, notifications |-> <<>>]
        ELSE [raised |-> FALSE,
              notifications |-> notification_rules(call.value, exps, summary, month)]

\* get_notifications(month, user_id): the thresholds are loaded by the same
\* call, then the summary is made with them and the rules are applied; an
\* exception is answered with 500.
get_notifications(self, exps, month, user_id) ==
    LET call == load_thresholds_call(self, [user_id |-> user_id])
        summary == summarize(self, exps, call.value)
        made == generate_notifications(self, exps, summary, month, user_id)
    IN  IF call.raised \/ made.raised
        THEN [raised |-> TRUE, status |-> 500, notifications |-> <<>>]
        ELSE [raised |-> FALSE, status |-> 200, notifications |-> made.notifications]

----------------------------------------------------------------------------
(* State machine *)

\* The record of the last completed operation: what was asked, what was
\* answered, the scheduler global before it (pre) and, for a disable that
\* directly follows an enable of the same user, the global before that enable.
NoOp ==
    [op |-> "init", user |-> 0, status |-> 0, write |-> "none",
     day |-> 0, hour |-> 0, minute |-> 0, pre |-> None,
     job |-> <<>>, outcome |-> "none", propagated |-> FALSE,
     invoked |-> FALSE, user_ids |-> {},
     follows_enable |-> FALSE, pre_enable |-> None]

\* No call made on the analyzer yet.
NoCall ==
    [op |-> "none", overrides |-> None, buffer |-> DefaultBuffer,
     summary |-> None, raised |-> FALSE, value |-> None, month |-> ""]

\* After import: no scheduler yet, and the settings module has bound the
\* value the global had at that moment.
Init ==
    /\ users_table = [u \in Users |-> NewUserItem(u)]
    /\ scheduler = None
    /\ settings_scheduler = None
    /\ last = NoOp
    /\ finance_analyzer = FinanceAnalyzer(None, DefaultSpikeSigma, DefaultMinimumSpikeAmount)
    /\ expenses = <<>>
    /\ answer = NoCall
    /\ requests = <<>>
    /\ orphans = <<>>

\* start_scheduler(), from lifespan startup.
Start ==
    /\ scheduler' = start_scheduler(scheduler)
    /\ last' = [NoOp EXCEPT !.op = "start", !.pre = scheduler]
    /\ UNCHANGED <<users_table, settings_scheduler>>
    /\ UNCHANGED <<analyzer_vars, request_vars>>

\* stop_scheduler(), from lifespan shutdown.
Stop ==
    /\ scheduler' = stop_scheduler(scheduler)
    /\ last' = [NoOp EXCEPT !.op = "stop", !.pre = scheduler]
    /\ UNCHANGED <<users_table, settings_scheduler>>
    /\ UNCHANGED <<analyzer_vars, request_vars>>

\* refresh_scheduler_jobs()
Refresh ==
    /\ scheduler' = refresh_scheduler_jobs(scheduler, users_table)
    /\ last' = [NoOp EXCEPT !.op = "refresh", !.pre = scheduler]
    /\ UNCHANGED <<users_table, settings_scheduler>>
    /\ UNCHANGED <<analyzer_vars, request_vars>>

\* POST /scheduler/start
start_scheduler_endpoint(u, f) ==
    /\ UNCHANGED <<analyzer_vars, request_vars>>
    /\ LET loaded == LoadSettings(users_table, u, f)
           db_settings == loaded.db_settings
       IN  IF db_settings = None
           THEN \* db_settings.get on None: AttributeError, answered with 500
                /\ users_table' = loaded.table
                /\ last' = [NoOp EXCEPT !.op = "enable", !.user = u, !.status = 500,
                                        !.pre = scheduler]
                /\ UNCHANGED <<scheduler, settings_scheduler>>
           ELSE LET saved == save_scheduler_settings(loaded.table, u, db_settings.day,
                                 db_settings.hour, db_settings.minute, TRUE, f.read, f.put)
                    reg == EnableRegistry(settings_scheduler, scheduler, u,
                                 db_settings.day, db_settings.hour, db_settings.minute)
                IN  /\ users_table' = saved.table
                    /\ scheduler' = reg.scheduler
                    /\ last' = [NoOp EXCEPT !.op = "enable", !.user = u,
                                   !.status = reg.status, !.pre = scheduler,
                                   !.write = IF saved.ret THEN "ok" ELSE "failed"]
                    /\ UNCHANGED settings_scheduler

\* POST /scheduler/stop
stop_scheduler_endpoint(u, f) ==
    /\ UNCHANGED <<analyzer_vars, request_vars>>
    /\ LET loaded == LoadSettings(users_table, u, f)
           db_settings == loaded.db_settings
           follows == last.op = "enable" /\ last.user = u
           seen == [NoOp EXCEPT !.op = "disable", !.user = u, !.pre = scheduler,
                       !.follows_enable = follows,
                       !.pre_enable = IF follows THEN last.pre ELSE None]
       IN  IF db_settings = None
           THEN /\ users_table' = loaded.table
                /\ last' = [seen EXCEPT !.status = 500]
                /\ UNCHANGED <<scheduler, settings_scheduler>>
           ELSE LET saved == save_scheduler_settings(loaded.table, u, db_settings.day,
                                 db_settings.hour, db_settings.minute, FALSE, f.read, f.put)
                    reg == DisableRegistry(settings_scheduler, scheduler, u)
                IN  /\ users_table' = saved.table
                    /\ scheduler' = reg.scheduler
                    /\ last' = [seen EXCEPT !.status = reg.status,
                                   !.write = IF saved.ret THEN "ok" ELSE "failed"]
                    /\ UNCHANGED settings_scheduler

\* PUT /scheduler/schedule
update_scheduler_schedule(u, day, hour, minute, f) ==
    /\ UNCHANGED <<analyzer_vars, request_vars>>
    /\ IF ~ValidSchedule(day, hour, minute)
       THEN \* HTTPException(400) before anything is read or written
            /\ last' = [NoOp EXCEPT !.op = "reschedule", !.user = u, !.status = 400,
                           !.day = day, !.hour = hour, !.minute = minute,
                           !.pre = scheduler]
            /\ UNCHANGED <<users_table, scheduler, settings_scheduler>>
       ELSE LET db_settings == get_scheduler_settings(users_table, u, f.get1)
                enabled == IF db_settings /= None THEN db_settings.enabled ELSE FALSE
                saved == save_scheduler_settings(users_table, u, day, hour, minute,
                                                 enabled, f.read, f.put)
                reg == RescheduleRegistry(settings_scheduler, scheduler, u, enabled,
                                          day, hour, minute)
            IN  /\ users_table' = saved.table
                /\ scheduler' = reg.scheduler
                /\ last' = [NoOp EXCEPT !.op = "reschedule", !.user = u,
                               !.status = reg.status,
                               !.day = day, !.hour = hour, !.minute = minute,
                               !.pre = scheduler,
                               !.write = IF saved.ret THEN "ok" ELSE "failed"]
                /\ UNCHANGED settings_scheduler

\* The dispatch loop fires the registered job: one_time_job() runs
\* monthly_reports_job() and, in its finally, removes the job it ran as.
one_time_job(scan, lam) ==
    /\ scheduler /= None
    /\ scheduler.running
    /\ get_job(scheduler, SystemJobId) /= None
    /\ LET ran == monthly_reports_job(users_table, scan, lam)
       IN  /\ scheduler' = remove_job(scheduler, SystemJobId)
           /\ last' = [NoOp EXCEPT !.op = "fire", !.job = SystemJobId,
                          !.pre = scheduler, !.outcome = ran.outcome,
                          !.propagated = ran.propagated, !.invoked = ran.invoked,
                          !.user_ids = ran.user_ids]
    /\ UNCHANGED <<users_table, settings_scheduler>>
    /\ UNCHANGED <<analyzer_vars, request_vars>>

Next ==
    \/ Start
    \/ Stop
    \/ Refresh
    \/ \E u \in Users : \E f \in EnableDbOutcomes : start_scheduler_endpoint(u, f)
    \/ \E u \in Users : \E f \in EnableDbOutcomes : stop_scheduler_endpoint(u, f)
    \/ \E u \in Users : \E x \in ScheduleInputs : \E f \in RescheduleDbOutcomes :
          update_scheduler_schedule(u, x[1], x[2], x[3], f)
    \/ \E scan \in {"ok", "client_error", "error"} : \E lam \in {"success", "failure"} :
          one_time_job(scan, lam)

Spec == Init /\ [][Next]_<<vars, analyzer_vars, request_vars>>

----------------------------------------------------------------------------
(* The analyzer and the rule engine, applied to bounded inputs *)

MaxLen == 4

\* Amounts in thousandths: one below half a cent and one of whole cents,
\* chosen so that no sum, mean or buffered mean of at most MaxLen + 1 of
\* them lies on a decimal half.
AmountInputs == {4, 240}

\* The records that may follow the list s: with or without an amount, of a
\* category s already uses or of the next unused name of CategoryNames
\* (lists that differ only in the names of their categories are the same
\* input).
ExpenseRecords(s) ==
    LET used == Cardinality(CategoriesOf(s))
        names == {CategoryNames[k] : k \in 1..(IF used < Len(CategoryNames)
                                                THEN used + 1 ELSE used)}
    IN  {[category |-> c, amount |-> a] : c \in names, a \in AmountInputs}
            \cup {[category |-> c] : c \in names}

RECURSIVE ExpenseLists(_)
\* The expense lists of at most n records.
ExpenseLists(n) ==
    IF n = 0 THEN {<<>>}
    ELSE LET shorter == ExpenseLists(n - 1)
         IN  shorter \cup
             UNION {{Append(s, r) : r \in ExpenseRecords(s)} :
                        s \in {t \in shorter : Len(t) = n - 1}}

ExpenseInputs == ExpenseLists(MaxLen)

\* The content of a bundled budget_thresholds.json.
BundledThresholds == ("Food" :> 240) @@ ("Shopping" :> 480)

\* FinanceAnalyzer() as the tests build it, FinanceAnalyzer(path) as the
\* routers build it with the bundled file present, and an analyzer with
\* spike_sigma = 0 and minimum_spike_amount = 0.004.
AnalyzerInputs ==
    {FinanceAnalyzer(None, DefaultSpikeSigma, DefaultMinimumSpikeAmount),
     FinanceAnalyzer(BundledThresholds, DefaultSpikeSigma, DefaultMinimumSpikeAmount),
     FinanceAnalyzer(None, [num |-> 0, den |-> 1], 4)}

\* Threshold maps supplied by the caller: none, the empty map, and maps
\* that some totals of the inputs stay below, meet and exceed.
OverrideInputs ==
    {None, EmptyDict, ("Food" :> 240) @@ ("Rent" :> 4), ("Food" :> 280)}

\* buffer_percentage: 0 and the default 0.15
BufferInputs == {[num |-> 0, den |-> 1], DefaultBuffer}

\* One analyzer, one expense list, and no call made yet.  Every action below
\* is one call on these inputs; the functions read nothing else and write
\* nothing, so the calls of a behaviour are independent and each behaviour
\* makes one.
AnalyzerInit ==
    /\ users_table = [u \in Users |-> NewUserItem(u)]
    /\ scheduler = None
    /\ settings_scheduler = None
    /\ last = NoOp
    /\ finance_analyzer \in AnalyzerInputs
    /\ expenses \in ExpenseInputs
    /\ answer = NoCall
    /\ requests = <<>>
    /\ orphans = <<>>

\* finance_analyzer.monthly_total(expenses)
MonthlyTotal ==
    /\ answer.op = "none"
    /\ answer' = [NoCall EXCEPT !.op = "monthly_total",
                                !.value = monthly_total(expenses)]
    /\ UNCHANGED <<finance_analyzer, expenses>>
    /\ UNCHANGED <<vars, request_vars>>

\* finance_analyzer.category_totals(expenses)
CategoryTotals ==
    /\ answer.op = "none"
    /\ answer' = [NoCall EXCEPT !.op = "category_totals",
                                !.value = category_totals(expenses)]
    /\ UNCHANGED <<finance_analyzer, expenses>>
    /\ UNCHANGED <<vars, request_vars>>

\* finance_analyzer.overspending_categories(expenses, budget_overrides)
OverspendingCategories(budget_overrides) ==
    /\ answer.op = "none"
    /\ answer' = [NoCall EXCEPT !.op = "overspending_categories",
                     !.overrides = budget_overrides,
                     !.value = overspending_categories(finance_analyzer, expenses,
                                                       budget_overrides)]
    /\ UNCHANGED <<finance_analyzer, expenses>>
    /\ UNCHANGED <<vars, request_vars>>

\* finance_analyzer.suggest_budget(expenses, buffer_percentage)
SuggestBudget(buffer_percentage) ==
    /\ answer.op = "none"
    /\ answer' = [NoCall EXCEPT !.op = "suggest_budget",
                     !.buffer = buffer_percentage,
                     !.value = suggest_budget(expenses, buffer_percentage)]
    /\ UNCHANGED <<finance_analyzer, expenses>>
    /\ UNCHANGED <<vars, request_vars>>

\* finance_analyzer.detect_spending_spikes(expenses)
DetectSpendingSpikes ==
    /\ answer.op = "none"
    /\ answer' = [NoCall EXCEPT !.op = "detect_spending_spikes",
                     !.value = detect_spending_spikes(finance_analyzer, expenses)]
    /\ UNCHANGED <<finance_analyzer, expenses>>
    /\ UNCHANGED <<vars, request_vars>>

\* finance_analyzer.summarize(expenses, budget_overrides)
Summarize(budget_overrides) ==
    /\ answer.op = "none"
    /\ answer' = [NoCall EXCEPT !.op = "summarize",
                     !.overrides = budget_overrides,
                     !.value = summarize(finance_analyzer, expenses, budget_overrides)]
    /\ UNCHANGED <<finance_analyzer, expenses>>
    /\ UNCHANGED <<vars, request_vars>>

\* generate_notifications(expenses, summary, month, user_id) with the summary
\* made of the same expenses under the thresholds of the user.
GenerateNotifications(budget_overrides, month, user_id) ==
    /\ answer.op = "none"
    /\ LET summary == summarize(finance_analyzer, expenses, budget_overrides)
           made == generate_notifications(finance_analyzer, expenses, summary,
                                          month, user_id)
       IN  answer' = [NoCall EXCEPT !.op = "generate_notifications",
                         !.overrides = budget_overrides,
                         !.summary = summary,
                         !.raised = made.raised,
                         !.value = made.notifications]
    /\ UNCHANGED <<finance_analyzer, expenses>>
    /\ UNCHANGED <<vars, request_vars>>

\* GET /notifications/{month}
GetNotifications(month, user_id) ==
    /\ answer.op = "none"
    /\ LET got == get_notifications(finance_analyzer, expenses, month, user_id)
       IN  answer' = [NoCall EXCEPT !.op = "get_notifications",
                         !.raised = got.raised,
                         !.value = got.notifications]
    /\ UNCHANGED <<finance_analyzer, expenses>>
    /\ UNCHANGED <<vars, request_vars>>

AnalyzerNext ==
    \/ MonthlyTotal
    \/ CategoryTotals
    \/ \E o \in OverrideInputs : OverspendingCategories(o)
    \/ \E b \in BufferInputs : SuggestBudget(b)
    \/ DetectSpendingSpikes
    \/ \E o \in OverrideInputs : Summarize(o)
    \/ \E o \in OverrideInputs : \E u \in Users : GenerateNotifications(o, "2025-11", u)
    \/ \E u \in Users : GetNotifications("2025-11", u)

AnalyzerSpec == AnalyzerInit /\ [][AnalyzerNext]_<<vars, analyzer_vars, request_vars>>

----------------------------------------------------------------------------
(* The rules of generate_notifications, entered with thresholds that were   *)
(* loaded.  Every request of the program stops at the loading of the       *)
(* thresholds (GenerateNotifications above); the statements that follow it *)
(* are applied here to the thresholds load_thresholds returns when it is   *)
(* called with the parameter it has.                                       *)

MaxRuleLen == 2

\* The records get_expenses_for_user returns for user u: every stored
\* expense carries its expense_id.
StoredExpenses(u, exps) ==
    [i \in DOMAIN exps |->
        [k \in DOMAIN exps[i] \cup {"expense_id"} |->
            IF k = "expense_id" THEN <<u, i>> ELSE exps[i][k]]]

RuleExpenseInputs == ExpenseLists(MaxRuleLen)

\* The months asked for.
MonthInputs == {"2025-10", "2025-11"}

RulesInit ==
    /\ users_table = [u \in Users |-> NewUserItem(u)]
    /\ scheduler = None
    /\ settings_scheduler = None
    /\ last = NoOp
    /\ finance_analyzer \in AnalyzerInputs
    /\ expenses = <<>>
    /\ answer = NoCall
    /\ requests = <<>>
    /\ orphans = <<>>

\* One request for the notifications of user u and a month: the records of
\* that user and month are read, summarized under the thresholds, and the
\* rules are applied to the summary.
NotificationRules(u, exps, budget_overrides, month) ==
    /\ expenses' = StoredExpenses(u, exps)
    /\ LET thresholds == load_thresholds_call(finance_analyzer,
                                              [overrides |-> budget_overrides]).value
           summary == summarize(finance_analyzer, expenses', thresholds)
       IN  answer' = [NoCall EXCEPT !.op = "notification_rules",
                         !.overrides = thresholds,
                         !.summary = summary,
                         !.month = month,
                         !.value = notification_rules(thresholds, expenses',
                                                      summary, month)]
    /\ UNCHANGED finance_analyzer
    /\ UNCHANGED <<vars, request_vars>>

RulesNext ==
    \E u \in Users : \E exps \in RuleExpenseInputs : \E o \in OverrideInputs :
        \E month \in MonthInputs : NotificationRules(u, exps, o, month)

RulesSpec == RulesInit /\ [][RulesNext]_<<vars, analyzer_vars, request_vars>>

----------------------------------------------------------------------------
(* Requests served at the same time.  The endpoints are plain `def`         *)
(* functions, which FastAPI runs on worker threads, so the statements of   *)
(* two handlers interleave.  A step of a request is one call on the table  *)
(* (get_item, put_item) or one statement of start_scheduler() on the       *)
(* module global; every table call goes through here.                      *)

\* How many requests are in flight together.
NumRequests == 2

Threads == 1..NumRequests

\* The first step of each handler.
FirstStep(op) ==
    CASE op \in {"enable", "disable", "reschedule"} -> "get_scheduler_settings"
      [] op = "thresholds" -> "get_user_by_id"
      [] OTHER -> "check"

\* A request that has not taken a step: the handler's arguments, its
\* position, and its locals db_settings (the settings read first) and item
\* (the user item read inside the save).
Request(op, u, day, hour, minute, thresholds) ==
    [op |-> op, user |-> u, day |-> day, hour |-> hour, minute |-> minute,
     thresholds |-> thresholds, pc |-> FirstStep(op),
     db_settings |-> None, item |-> None, status |-> 0]

\* The body of PUT /thresholds the requests carry.
ThresholdsBody == ("Food" :> 280)

\* POST /scheduler/start, POST /scheduler/stop, PUT /scheduler/schedule with
\* the highest in-range schedule and PUT /thresholds for each user, and the
\* start_scheduler() of lifespan startup.
RequestInputs ==
    UNION {{Request("enable", u, 0, 0, 0, None),
            Request("disable", u, 0, 0, 0, None),
            Request("reschedule", u, MaxDay, MaxHour, MaxMinute, None),
            Request("thresholds", u, 0, 0, 0, ThresholdsBody)} : u \in Users}
    \cup {Request("startup", 0, 0, 0, 0, None)}

\* The item save_budget_thresholds builds from the existing one.
ThresholdsItem(item, thresholds) ==
    [k \in DOMAIN item \cup {"budget_thresholds"} |->
        IF k = "budget_thresholds" THEN thresholds ELSE item[k]]

\* save_budget_thresholds(user_id, thresholds): True when the item was put.
save_budget_thresholds(tbl, u, thresholds, readOk, putOk) ==
    IF readOk /\ putOk
    THEN [ret |-> TRUE, table |-> [tbl EXCEPT ![u] = ThresholdsItem(tbl[u], thresholds)]]
    ELSE [ret |-> FALSE, table |-> tbl]

\* The requests are taken with the scheduler stopped or started, the
\* registered users' items as registration left them; the process runs
\* lifespan startup once.
ConcurrentInit ==
    /\ users_table = [u \in Users |-> NewUserItem(u)]
    /\ scheduler \in {None, start_scheduler(None)}
    /\ settings_scheduler = None
    /\ last = [NoOp EXCEPT !.pre = scheduler]
    /\ finance_analyzer = FinanceAnalyzer(None, DefaultSpikeSigma, DefaultMinimumSpikeAmount)
    /\ expenses = <<>>
    /\ answer = NoCall
    /\ requests \in [Threads -> RequestInputs]
    /\ Cardinality({t \in Threads : requests[t].op = "startup"}) <= 1
    /\ orphans = <<>>

\* The request of thread t moves to step pc.
Goto(t, pc) == requests' = [requests EXCEPT ![t].pc = pc]

\* The request of thread t is answered.
Answer(t, status) == requests' = [requests EXCEPT ![t].pc = "done", ![t].status = status]

\* db_settings = dynamo.get_scheduler_settings(user_id): one get_item.
GetSchedulerSettings(t) ==
    /\ requests[t].pc = "get_scheduler_settings"
    /\ requests' = [requests EXCEPT
          ![t].db_settings = get_scheduler_settings(users_table, requests[t].user, TRUE),
          ![t].pc = "get_user_by_id"]
    /\ UNCHANGED <<vars, analyzer_vars, orphans>>

\* existing_user = get_user_by_id(user_id), inside either save: one get_item.
GetUserById(t) ==
    /\ requests[t].pc = "get_user_by_id"
    /\ requests' = [requests EXCEPT ![t].item = users_table[requests[t].user],
                                    ![t].pc = "put_item"]
    /\ UNCHANGED <<vars, analyzer_vars, orphans>>

\* users_table.put_item(Item=item): the whole item, built from the one read
\* before, replaces the stored one.
PutItem(t) ==
    /\ requests[t].pc = "put_item"
    /\ LET r == requests[t]
           item == CASE r.op = "thresholds" -> ThresholdsItem(r.item, r.thresholds)
                     [] r.op = "enable" ->
                            SchedulerItem(r.item, r.db_settings.day, r.db_settings.hour,
                                          r.db_settings.minute, TRUE)
                     [] r.op = "disable" ->
                            SchedulerItem(r.item, r.db_settings.day, r.db_settings.hour,
                                          r.db_settings.minute, FALSE)
                     [] OTHER ->
                            SchedulerItem(r.item, r.day, r.hour, r.minute,
                                          r.db_settings.enabled)
       IN  /\ users_table' = [users_table EXCEPT ![r.user] = item]
           /\ IF r.op = "thresholds" THEN Answer(t, 200) ELSE Goto(t, "registry")
    /\ UNCHANGED <<scheduler, settings_scheduler, last, analyzer_vars, orphans>>

\* The registry part of the three scheduler endpoints; an enable that finds
\* the bound name unset goes on into start_scheduler().
Registry(t) ==
    /\ requests[t].pc = "registry"
    /\ LET r == requests[t]
       IN  CASE r.op = "enable" ->
                  /\ IF ~SettingsSeesRunning(settings_scheduler)
                     THEN Goto(t, "check")
                     ELSE Answer(t, 500)
                  /\ UNCHANGED scheduler
             [] r.op = "disable" ->
                  LET reg == DisableRegistry(settings_scheduler, scheduler, r.user)
                  IN  /\ scheduler' = reg.scheduler
                      /\ Answer(t, reg.status)
             [] OTHER ->
                  LET reg == RescheduleRegistry(settings_scheduler, scheduler, r.user,
                                 r.db_settings.enabled, r.day, r.hour, r.minute)
                  IN  /\ scheduler' = reg.scheduler
                      /\ Answer(t, reg.status)
    /\ UNCHANGED <<users_table, settings_scheduler, last, analyzer_vars, orphans>>

\* start_scheduler(): `if scheduler is not None: return`
StartCheck(t) ==
    /\ requests[t].pc = "check"
    /\ IF scheduler /= None THEN Answer(t, 200) ELSE Goto(t, "create")
    /\ UNCHANGED <<vars, analyzer_vars, orphans>>

\* start_scheduler(): `scheduler = BackgroundScheduler()`.  An object the
\* global held until now is referred to by nothing any more.
StartCreate(t) ==
    /\ requests[t].pc = "create"
    /\ orphans' = IF scheduler /= None THEN Append(orphans, scheduler) ELSE orphans
    /\ scheduler' = BackgroundScheduler
    /\ Goto(t, "add_job")
    /\ UNCHANGED <<users_table, settings_scheduler, last, analyzer_vars>>

\* start_scheduler(): `scheduler.add_job(one_time_job, ...)`, on the object
\* the global holds now.
StartAddJob(t) ==
    /\ requests[t].pc = "add_job"
    /\ scheduler' = add_job(scheduler, SystemJobId, IntervalTrigger(TestIntervalMinutes))
    /\ Goto(t, "start")
    /\ UNCHANGED <<users_table, settings_scheduler, last, analyzer_vars, orphans>>

\* start_scheduler(): `scheduler.start()`, on the object the global holds
\* now; on a scheduler that runs, APScheduler raises
\* SchedulerAlreadyRunningError.
StartRun(t) ==
    /\ requests[t].pc = "start"
    /\ IF scheduler.running
       THEN /\ Answer(t, 500)
            /\ UNCHANGED scheduler
       ELSE /\ scheduler' = [scheduler EXCEPT !.running = TRUE]
            /\ Answer(t, 200)
    /\ UNCHANGED <<users_table, settings_scheduler, last, analyzer_vars, orphans>>

\* Every request has been answered.
AllDone == \A t \in Threads : requests[t].pc = "done"

\* stop_scheduler(), from lifespan shutdown, once the requests are answered:
\* it shuts down the object the global holds and lets go of it.
Shutdown ==
    /\ AllDone
    /\ last.op /= "stop"
    /\ scheduler' = stop_scheduler(scheduler)
    /\ last' = [NoOp EXCEPT !.op = "stop", !.pre = scheduler]
    /\ UNCHANGED <<users_table, settings_scheduler, analyzer_vars, request_vars>>

ConcurrentNext ==
    \/ \E t \in Threads : GetSchedulerSettings(t)
    \/ \E t \in Threads : GetUserById(t)
    \/ \E t \in Threads : PutItem(t)
    \/ \E t \in Threads : Registry(t)
    \/ \E t \in Threads : StartCheck(t)
    \/ \E t \in Threads : StartCreate(t)
    \/ \E t \in Threads : StartAddJob(t)
    \/ \E t \in Threads : StartRun(t)
    \/ Shutdown

ConcurrentSpec == ConcurrentInit /\ [][ConcurrentNext]_<<vars, analyzer_vars, request_vars>>

----------------------------------------------------------------------------
(* Vocabulary of the properties *)

Running(s) == s /= None /\ s.running

\* The jobs registered for user u: those under the id derived from u.
JobsOf(s, u) == IF s = None THEN {} ELSE {j \in s.jobs : j.id = UserJobId(u)}

\* The jobs registered under any other id.
JobsNotOf(s, u) == IF s = None THEN {} ELSE {j \in s.jobs : j.id /= UserJobId(u)}

\* The persisted settings of u, as the repository reports them.
Persisted(tbl, u) == get_scheduler_settings(tbl, u, TRUE)

PersistedTrigger(tbl, u) ==
    CronTrigger(Persisted(tbl, u).day, Persisted(tbl, u).hour, Persisted(tbl, u).minute)

EnabledUsers(tbl) == {u \in Users : Persisted(tbl, u).enabled}

\* The records of the input with their amounts as the claims read them: the
\* amount of the record, 0 for a record without one.
StatedAmount(e) == IF "amount" \in DOMAIN e THEN e.amount ELSE 0

RECURSIVE StatedSum(_, _)
\* The exact sum of the amounts of the records of the categories in cs.
StatedSum(exps, cs) ==
    IF exps = <<>> THEN 0
    ELSE (IF Head(exps).category \in cs THEN StatedAmount(Head(exps)) ELSE 0)
             + StatedSum(Tail(exps), cs)

\* The number of records of category c.
StatedCount(exps, c) == Cardinality({i \in DOMAIN exps : exps[i].category = c})

AllCategories == {CategoryNames[k] : k \in DOMAIN CategoryNames}

Abs(x) == IF x < 0 THEN -x ELSE x

\* v is num / den rounded to 2 decimals: a whole number of cents that is no
\* further than half a cent from num / den (den > 0; thousandths).
IsRounded2(v, num, den) == v % 10 = 0 /\ 2 * Abs(v * den - num) <= 10 * den

RECURSIVE IsSubSeq(_, _)
\* s is t with some elements left out, the order kept.
IsSubSeq(s, t) ==
    IF s = <<>> THEN TRUE
    ELSE IF t = <<>> THEN FALSE
    ELSE IF Head(s) = Head(t) /\ IsSubSeq(Tail(s), Tail(t)) THEN TRUE
    ELSE IsSubSeq(s, Tail(t))

\* The notifications of one type and category in a list.
NotificationsFor(ns, type, c) ==
    {i \in DOMAIN ns : ns[i].type = type /\ ns[i].category = c}


----------------------------------------------------------------------------
(* Properties *)

\* C1: with the scheduler running, enable(u) directly followed by disable(u)
\* ends with no job registered for u, with every job registered under another
\* id before the enable still registered with the same trigger, and with the
\* scheduler still running.
C1_EnableThenDisable ==
    (last.op = "disable" /\ last.follows_enable /\ Running(last.pre_enable)) =>
        /\ JobsOf(scheduler, last.user) = {}
        /\ JobsNotOf(last.pre_enable, last.user) \subseteq JobsNotOf(scheduler, last.user)
        /\ Running(scheduler)

\* C1 witness: a disable answered 200 right after an enable of the same user
\* on a running scheduler that held a job, while another user is enabled.
C1_Witness ==
    /\ last.op = "disable" /\ last.follows_enable /\ Running(last.pre_enable)
    /\ last.status = 200 /\ last.write = "ok"
    /\ JobsNotOf(last.pre_enable, last.user) /= {}
    /\ \E v \in Users \ {last.user} : Persisted(users_table, v).enabled

\* C2: a reschedule whose day is outside 1..31, hour outside 0..23 or minute
\* outside 0..59 is answered with the validation error 400 and changes
\* neither the persisted settings of any user nor the scheduler and its jobs.
C2_InvalidRescheduleRejected ==
    [][(/\ last'.op = "reschedule"
        /\ \/ last'.day \notin 1..31
           \/ last'.hour \notin 0..23
           \/ last'.minute \notin 0..59)
       => (/\ last'.status = 400
           /\ users_table' = users_table
           /\ scheduler' = scheduler)]_vars

\* C2 witness: reschedule with day = 32 was rejected for an enabled user
\* with a changed schedule while the scheduler runs.
C2_Witness ==
    /\ last.op = "reschedule" /\ last.day = 32 /\ last.status = 400
    /\ Persisted(users_table, last.user).enabled
    /\ Persisted(users_table, last.user).day /= DefaultDay
    /\ Running(scheduler)

\* C3: while the scheduler runs, a job is registered for u exactly when u's
\* persisted settings are enabled, and no user has more than one job.
C3_JobIffEnabled ==
    Running(scheduler) =>
        \A u \in Users :
            /\ (JobsOf(scheduler, u) /= {}) <=> Persisted(users_table, u).enabled
            /\ Cardinality(JobsOf(scheduler, u)) <= 1

\* C4: after enable(u) answered success, u is persisted as enabled; if the
\* scheduler was running before, exactly one job of u is registered, with
\* the persisted (day, hour, minute) as trigger; if it was stopped, it runs.
C4_EnablePostcondition ==
    (last.op = "enable" /\ last.status = 200) =>
        /\ Persisted(users_table, last.user).enabled
        /\ Running(last.pre) =>
              JobsOf(scheduler, last.user) =
                  {[id |-> UserJobId(last.user),
                    trigger |-> PersistedTrigger(users_table, last.user)]}
        /\ ~Running(last.pre) => Running(scheduler)

\* C5: after start() on a stopped scheduler the registry holds exactly one
\* job per enabled user, under the id derived from the user and with the
\* user's persisted (day, hour, minute) as trigger, and nothing else; the
\* scheduler runs.
C5_StartRegistersEnabledUsers ==
    (last.op = "start" /\ last.pre = None) =>
        /\ Running(scheduler)
        /\ scheduler.jobs =
              {[id |-> UserJobId(u), trigger |-> PersistedTrigger(users_table, u)] :
                  u \in EnabledUsers(users_table)}

\* C6: after refresh() with the scheduler running, the users with a
\* registered job are exactly the users persisted as enabled.
C6_RefreshReconciles ==
    (last.op = "refresh" /\ Running(scheduler)) =>
        {u \in Users : JobsOf(scheduler, u) /= {}} = EnabledUsers(users_table)

\* C7: an in-range reschedule(u, d, h, m) persists (d, h, m); afterwards an
\* enabled u has, while the scheduler runs, the single job with trigger
\* (d, h, m), a disabled u has no job; no other user's item or job changes.
C7_ReschedulePostcondition ==
    [][(/\ last'.op = "reschedule"
        /\ last'.day \in 1..31 /\ last'.hour \in 0..23 /\ last'.minute \in 0..59)
       => LET u == last'.user
              now == Persisted(users_table', u)
          IN  /\ now.day = last'.day /\ now.hour = last'.hour /\ now.minute = last'.minute
              /\ (now.enabled /\ Running(scheduler')) =>
                    JobsOf(scheduler', u) =
                        {[id |-> UserJobId(u),
                          trigger |-> CronTrigger(last'.day, last'.hour, last'.minute)]}
              /\ ~now.enabled => JobsOf(scheduler', u) = {}
              /\ \A v \in Users \ {u} :
                    /\ users_table'[v] = users_table[v]
                    /\ JobsOf(scheduler', v) = JobsOf(scheduler, v)]_vars

\* C8: when the write of save_scheduler_settings failed during enable,
\* disable or reschedule, the request is not answered with success and the
\* scheduler and its jobs are as before the request; the scheduler and its
\* jobs change only when the write succeeded.
C8_WriteFailureSurfaces ==
    last.op \in {"enable", "disable", "reschedule"} =>
        /\ last.write = "failed" => (last.status /= 200 /\ scheduler = last.pre)
        /\ scheduler /= last.pre => last.write = "ok"

\* C9: a firing that invokes the report trigger sends the user_ids of
\* exactly one user.
C9_FiresForOneUser ==
    (last.op = "fire" /\ last.invoked) => \E u \in Users : last.user_ids = {u}

\* C10: when the report trigger raised or reported failure, the job callback
\* returned normally, the scheduler still runs, and every job registered
\* under another id is still registered with the same trigger.
C10_CallbackFailureContained ==
    [][(last'.op = "fire" /\ last'.outcome \in {"raised", "failed"})
       => (/\ ~last'.propagated
           /\ Running(scheduler')
           /\ \A j \in scheduler.jobs : j.id /= last'.job => j \in scheduler'.jobs)]_vars

\* C10 witness: a firing whose trigger raised, with the scheduler running.
C10_Witness ==
    /\ last.op = "fire" /\ last.outcome = "raised"
    /\ Running(scheduler)
    /\ EnabledUsers(users_table) /= {}

\* C11: start() while the scheduler is already started is a no-op: the
\* scheduler instance, its running flag, its jobs and their triggers are
\* afterwards what they were before, however often start() is repeated.
C11_StartWhileStartedIsNoOp ==
    (last.op = "start" /\ last.pre /= None) => scheduler = last.pre

\* C11 witness: start() on a running scheduler whose job has already fired
\* and was removed: the repeated start registers nothing.
C11_Witness ==
    /\ last.op = "start" /\ last.pre /= None
    /\ Running(last.pre) /\ last.pre.jobs = {}
    /\ scheduler = last.pre

\* C12: after stop() the scheduler does not run, holds no job and the status
\* reports running = false; stop() on a stopped scheduler changes nothing;
\* a start() that follows a stop() makes the scheduler run again with the
\* jobs rebuilt from the settings persisted at that moment: one job per
\* enabled user with the user's persisted (day, hour, minute).
C12_StopThenStart ==
    [][/\ last'.op = "stop" =>
            /\ ~Running(scheduler')
            /\ (scheduler' = None \/ scheduler'.jobs = {})
            /\ get_scheduler_status(scheduler').running = FALSE
            /\ get_scheduler_status(scheduler').jobs = {}
            /\ scheduler = None => scheduler' = scheduler
       /\ (last.op = "stop" /\ last'.op = "start") =>
            /\ Running(scheduler')
            /\ scheduler'.jobs =
                  {[id |-> UserJobId(u), trigger |-> PersistedTrigger(users_table', u)] :
                      u \in EnabledUsers(users_table')}]_vars

\* C13: in every reachable state every persisted schedule has its day in
\* 1..31, its hour in 0..23 and its minute in 0..59, as stored and as the
\* repository reports it, and the trigger of every registered per-user job
\* lies in the same ranges.
C13_ScheduleInRange ==
    /\ \A u \in Users :
          /\ Persisted(users_table, u).day \in 1..31
          /\ Persisted(users_table, u).hour \in 0..23
          /\ Persisted(users_table, u).minute \in 0..59
          /\ "scheduler_day" \in DOMAIN users_table[u] =>
                /\ users_table[u].scheduler_day \in 1..31
                /\ users_table[u].scheduler_hour \in 0..23
                /\ users_table[u].scheduler_minute \in 0..59
    /\ \A u \in Users : \A j \in JobsOf(scheduler, u) :
          /\ j.trigger.type = "cron"
          /\ j.trigger.day \in 1..31
          /\ j.trigger.hour \in 0..23
          /\ j.trigger.minute \in 0..59

\* C13 witness: after an accepted reschedule to the highest schedule of an
\* enabled user, with another user still on the defaults, the scheduler
\* running.
C13_Witness ==
    /\ last.op = "reschedule" /\ last.status = 200 /\ last.write = "ok"
    /\ Persisted(users_table, last.user).enabled
    /\ Persisted(users_table, last.user).day = 31
    /\ Persisted(users_table, last.user).hour = 23
    /\ Persisted(users_table, last.user).minute = 59
    /\ \E v \in Users \ {last.user} : "scheduler_day" \notin DOMAIN users_table[v]
    /\ Running(scheduler)

C17_SigmaZeroReturnsAllAboveMinimum ==
    answer.op = "detect_spending_spikes" =>
        /\ IsSubSeq(answer.value, expenses)
        /\ (/\ finance_analyzer.spike_sigma.num = 0
            /\ \E i, j \in DOMAIN expenses :
                   StatedAmount(expenses[i]) /= StatedAmount(expenses[j])) =>
              answer.value =
                  SelectSeq(expenses, LAMBDA e :
                      StatedAmount(e) >= finance_analyzer.minimum_spike_amount)

\* C17 amended: detect_spending_spikes returns a sub-sequence of its input,
\* and with sigma = 0 and a non-zero population standard deviation it
\* returns exactly the records whose amount is at least min_amount and at
\* least the mean of all amounts.
C17_SigmaZeroReturnsAboveMinimumAndMean ==
    answer.op = "detect_spending_spikes" =>
        /\ IsSubSeq(answer.value, expenses)
        /\ (/\ finance_analyzer.spike_sigma.num = 0
            /\ \E i, j \in DOMAIN expenses :
                   StatedAmount(expenses[i]) /= StatedAmount(expenses[j])) =>
              answer.value =
                  SelectSeq(expenses, LAMBDA e :
                      /\ StatedAmount(e) >= finance_analyzer.minimum_spike_amount
                      /\ Len(expenses) * StatedAmount(e)
                             >= StatedSum(expenses, AllCategories))

\* C17 witness: sigma = 0, amounts that differ, one record at least
\* min_amount but below the mean that is not returned and one that is.
C17_Witness ==
    /\ answer.op = "detect_spending_spikes"
    /\ finance_analyzer.spike_sigma.num = 0
    /\ answer.value /= <<>>
    /\ \E i \in DOMAIN expenses :
          /\ StatedAmount(expenses[i]) >= finance_analyzer.minimum_spike_amount
          /\ Len(expenses) * StatedAmount(expenses[i]) < StatedSum(expenses, AllCategories)
          /\ \A k \in DOMAIN answer.value : answer.value[k] /= expenses[i]

\* C18: generate_notifications gives no category both a budget_exceeded and
\* an approaching_budget notification, and gives every category of the
\* summary's overspending_categories exactly one budget_exceeded and no
\* approaching_budget notification.
C18_ExceededExcludesApproaching ==
    answer.op = "generate_notifications" =>
        /\ \A c \in AllCategories :
              \/ NotificationsFor(answer.value, "budget_exceeded", c) = {}
              \/ NotificationsFor(answer.value, "approaching_budget", c) = {}
        /\ \A c \in DOMAIN answer.summary.overspending_categories :
              /\ Cardinality(NotificationsFor(answer.value, "budget_exceeded", c)) = 1
              /\ NotificationsFor(answer.value, "approaching_budget", c) = {}

\* C19: monthly_total is the sum of the amounts, a record without an amount
\* counting 0, rounded to 2 decimals; it is 0.0 for the empty record set.
C19_MonthlyTotalIsRoundedSum ==
    answer.op = "monthly_total" =>
        /\ IsRounded2(answer.value, StatedSum(expenses, AllCategories), 1)
        /\ expenses = <<>> => answer.value = 0

\* C19 witness: a record without an amount beside amounts whose sum is no
\* whole number of cents, so that the total is rounded.
C19_Witness ==
    /\ answer.op = "monthly_total"
    /\ \E i \in DOMAIN expenses : "amount" \notin DOMAIN expenses[i]
    /\ StatedSum(expenses, AllCategories) >= 480
    /\ answer.value /= StatedSum(expenses, AllCategories)

\* C20: suggest_budget(records, buffer) has exactly one entry per category
\* of the records, whose value is the mean of the amounts of that category
\* times (1 + buffer), rounded to 2 decimals; with buffer = 0 the mean.
C20_SuggestedBudgetIsBufferedMean ==
    answer.op = "suggest_budget" =>
        /\ DOMAIN answer.value = CategoriesOf(expenses)
        /\ \A c \in DOMAIN answer.value :
              /\ IsRounded2(answer.value[c],
                            StatedSum(expenses, {c})
                                * (answer.buffer.den + answer.buffer.num),
                            StatedCount(expenses, c) * answer.buffer.den)
              /\ answer.buffer.num = 0 =>
                    IsRounded2(answer.value[c], StatedSum(expenses, {c}),
                               StatedCount(expenses, c))

\* C20 witness: buffer 0.15, two categories, one of them with two records
\* of different amounts, its value above its rounded mean.
C20_Witness ==
    /\ answer.op = "suggest_budget"
    /\ answer.buffer.num = 15
    /\ Cardinality(DOMAIN answer.value) >= 2
    /\ \E c \in DOMAIN answer.value :
          /\ StatedCount(expenses, c) = 2
          /\ \E i, j \in DOMAIN expenses :
                /\ expenses[i].category = c /\ expenses[j].category = c
                /\ StatedAmount(expenses[i]) /= 0
                /\ StatedAmount(expenses[j]) /= 0
                /\ StatedAmount(expenses[i]) /= StatedAmount(expenses[j])
          /\ ~IsRounded2(answer.value[c], StatedSum(expenses, {c}),
                         StatedCount(expenses, c))

\* C23: a registered job stays registered across its own firings, with the
\* same trigger, whether the firing succeeded or not; a job leaves the
\* registry only through a disable of its user or a stop of the scheduler.
C23_JobStaysAcrossFirings ==
    [][/\ last'.op = "fire" =>
            /\ scheduler' /= None
            /\ get_job(scheduler', last'.job) /= None
            /\ get_job(scheduler', last'.job) = get_job(scheduler, last'.job)
       /\ (/\ scheduler /= None
           /\ \E j \in scheduler.jobs :
                 scheduler' = None \/ j \notin scheduler'.jobs) =>
            last'.op \in {"disable", "stop"}]_vars

\* C30: in a sequential run the scheduler endpoints change only the fields
\* they are about: reschedule leaves the user's persisted enabled flag as it
\* was, enable and disable leave the user's persisted day, hour and minute
\* as they were, and none of the three changes the item of another user or
\* the calling user's budget thresholds.
C30_EndpointsChangeOnlyTheirFields ==
    [][last'.op \in {"enable", "disable", "reschedule"} =>
          LET u == last'.user
              before == Persisted(users_table, u)
              after == Persisted(users_table', u)
          IN  /\ last'.op = "reschedule" => after.enabled = before.enabled
              /\ last'.op \in {"enable", "disable"} =>
                    /\ after.day = before.day
                    /\ after.hour = before.hour
                    /\ after.minute = before.minute
              /\ \A v \in Users \ {u} : users_table'[v] = users_table[v]
              /\ ItemGet(users_table'[u], "budget_thresholds", None)
                    = ItemGet(users_table[u], "budget_thresholds", None)]_vars

RECURSIVE StatedSumSquares(_)
\* The exact sum of the squares of the amounts.
StatedSumSquares(exps) ==
    IF exps = <<>> THEN 0
    ELSE StatedAmount(Head(exps)) * StatedAmount(Head(exps))
             + StatedSumSquares(Tail(exps))

\* n^2 times the population variance of the amounts.
StatedVariance(exps) ==
    Len(exps) * StatedSumSquares(exps)
        - StatedSum(exps, AllCategories) * StatedSum(exps, AllCategories)

\* (a - mean) / stdev >= sigma for the amounts of exps, the population
\* standard deviation being non-zero: with d = n * a - sum and v = n^2 *
\* variance the quotient is d / sqrt(v).
StatedZScoreAtLeast(exps, a, sigma) ==
    LET d == Len(exps) * a - StatedSum(exps, AllCategories)
        v == StatedVariance(exps)
    IN  IF sigma.num >= 0
        THEN d >= 0 /\ d * d * sigma.den * sigma.den >= sigma.num * sigma.num * v
        ELSE d >= 0 \/ d * d * sigma.den * sigma.den <= sigma.num * sigma.num * v

\* C25: detect_spending_spikes returns a record exactly when its amount is
\* at least min_amount, the population standard deviation of all amounts is
\* non-zero and (amount - mean) / stdev >= sigma; when all amounts are equal
\* it returns nothing, whatever sigma and min_amount are.
C25_SpikeIff ==
    answer.op = "detect_spending_spikes" =>
        /\ answer.value =
              SelectSeq(expenses, LAMBDA e :
                  /\ StatedAmount(e) >= finance_analyzer.minimum_spike_amount
                  /\ StatedVariance(expenses) /= 0
                  /\ StatedZScoreAtLeast(expenses, StatedAmount(e),
                                         finance_analyzer.spike_sigma))
        /\ StatedVariance(expenses) = 0 => answer.value = <<>>

\* The category of a notification, "" for the kinds that carry none.
CategoryOfNotification(n) == IF "category" \in DOMAIN n THEN n.category ELSE ""

ThresholdsInForce == load_thresholds(finance_analyzer, answer.overrides)

\* The notifications of the given types in a list.
NotificationsOfType(ns, types) == {i \in DOMAIN ns : ns[i].type \in types}

\* C22: a good_progress notification is emitted exactly when the summary has
\* no overspending category, monthly_total > 0, at least one category has
\* spend > 0 and every category with a positive threshold has
\* spent / threshold * 100 < 70; no output holds more than one.
C22_GoodProgressIff ==
    answer.op = "generate_notifications" =>
        LET good == NotificationsOfType(answer.value, {"good_progress"})
            totals == answer.summary.category_totals
        IN  /\ good /= {} <=>
                  /\ DOMAIN answer.summary.overspending_categories = {}
                  /\ answer.summary.monthly_total > 0
                  /\ \E c \in DOMAIN totals : totals[c] > 0
                  /\ \A c \in DOMAIN ThresholdsInForce :
                        ThresholdsInForce[c] > 0 =>
                            ItemGet(totals, c, 0) * 100 < 70 * ThresholdsInForce[c]
            /\ Cardinality(good) <= 1

\* C26: an approaching_budget notification is emitted for category c exactly
\* when c has a threshold, c is not in overspending_categories, spent(c) > 0
\* and 80 <= spent(c) / threshold(c) * 100 < 100; at most one per category,
\* its remaining amount is threshold - spent, and a category with threshold
\* 0 gets none.
C26_ApproachingIff ==
    answer.op = "generate_notifications" =>
        LET totals == answer.summary.category_totals
        IN  \A c \in AllCategories :
                LET near == NotificationsFor(answer.value, "approaching_budget", c)
                    spent == ItemGet(totals, c, 0)
                IN  /\ near /= {} <=>
                          /\ c \in DOMAIN ThresholdsInForce
                          /\ c \notin DOMAIN answer.summary.overspending_categories
                          /\ spent > 0
                          /\ ThresholdsInForce[c] /= 0
                          /\ 80 * ThresholdsInForce[c] <= spent * 100
                          /\ spent * 100 < 100 * ThresholdsInForce[c]
                    /\ Cardinality(near) <= 1
                    /\ \A i \in near :
                          answer.value[i].threshold - answer.value[i].amount
                              = ThresholdsInForce[c] - spent

\* C27: an output holds at most one spike notification: none when the
\* summary has no spike; one spending_spike with the category and amount of
\* the record when it has exactly one; one spending_spikes whose count is
\* the number of spikes and whose total_amount is the sum of their amounts
\* when it has more.
C27_AtMostOneSpikeNotification ==
    answer.op = "generate_notifications" =>
        LET spikes == answer.summary.spending_spikes
            told == NotificationsOfType(answer.value, {"spending_spike", "spending_spikes"})
        IN  /\ Cardinality(told) <= 1
            /\ Len(spikes) = 0 => told = {}
            /\ Len(spikes) = 1 =>
                  \E i \in told :
                      /\ answer.value[i].type = "spending_spike"
                      /\ answer.value[i].category = spikes[1].category
                      /\ answer.value[i].amount = StatedAmount(spikes[1])
            /\ Len(spikes) > 1 =>
                  \E i \in told :
                      /\ answer.value[i].type = "spending_spikes"
                      /\ answer.value[i].count = Len(spikes)
                      /\ answer.value[i].total_amount = StatedSum(spikes, AllCategories)

\* What one request leaves of the table and the global when no other request
\* runs between its first statement and its last.
RunAlone(st, r) ==
    LET db == get_scheduler_settings(st.table, r.user, TRUE)
    IN  CASE r.op = "enable" ->
               [table |-> save_scheduler_settings(st.table, r.user, db.day, db.hour,
                              db.minute, TRUE, TRUE, TRUE).table,
                scheduler |-> EnableRegistry(settings_scheduler, st.scheduler, r.user,
                                  db.day, db.hour, db.minute).scheduler]
          [] r.op = "disable" ->
               [table |-> save_scheduler_settings(st.table, r.user, db.day, db.hour,
                              db.minute, FALSE, TRUE, TRUE).table,
                scheduler |-> DisableRegistry(settings_scheduler, st.scheduler,
                                              r.user).scheduler]
          [] r.op = "reschedule" ->
               [table |-> save_scheduler_settings(st.table, r.user, r.day, r.hour,
                              r.minute, db.enabled, TRUE, TRUE).table,
                scheduler |-> RescheduleRegistry(settings_scheduler, st.scheduler, r.user,
                                  db.enabled, r.day, r.hour, r.minute).scheduler]
          [] r.op = "thresholds" ->
               [table |-> save_budget_thresholds(st.table, r.user, r.thresholds,
                                                 TRUE, TRUE).table,
                scheduler |-> st.scheduler]
          [] OTHER ->
               [table |-> st.table, scheduler |-> start_scheduler(st.scheduler)]

\* The table and the global after the requests of the threads ts have run
\* one at a time, in every order.
RECURSIVE SerialOutcomes(_, _)
SerialOutcomes(st, ts) ==
    IF ts = {}
    THEN {st}
    ELSE UNION {SerialOutcomes(RunAlone(st, requests[t]), ts \ {t}) : t \in ts}

\* The requests are answered and the process has not shut down; last.pre is
\* then still the global the requests were taken with.
Answered == AllDone /\ last.op = "init"

\* C24: for any concurrent execution of enable, disable and reschedule
\* requests, for the same user or for different users, the final job
\* registry and the persisted settings equal those that running the same
\* requests one at a time, in some order, produces.
C24_RegistryMutationsSerialized ==
    (/\ Answered
     /\ \A t \in Threads : requests[t].op \in {"enable", "disable", "reschedule"})
    => [table |-> users_table, scheduler |-> scheduler]
         \in SerialOutcomes([table |-> [u \in Users |-> NewUserItem(u)],
                             scheduler |-> last.pre], Threads)

\* C28: when a save_budget_thresholds and a save_scheduler_settings for the
\* same user ran concurrently and both returned True, the stored item holds
\* both the new thresholds and the new scheduler fields; and when an enable
\* or disable ran concurrently with a reschedule of the same user, the
\* stored enabled flag is the one that enable or disable wrote.
C28_WritesDoNotUndoEachOther ==
    Answered =>
        \A t1 \in Threads : \A t2 \in Threads :
            LET r1 == requests[t1]
                r2 == requests[t2]
                item == users_table[r1.user]
                stored == Persisted(users_table, r1.user)
            IN  /\ (/\ r1.op = "thresholds"
                    /\ r2.op \in {"enable", "disable", "reschedule"}
                    /\ r2.user = r1.user)
                   => /\ ItemGet(item, "budget_thresholds", None) = r1.thresholds
                      /\ "scheduler_enabled" \in DOMAIN item
                      /\ r2.op = "enable" => stored.enabled
                      /\ r2.op = "disable" => ~stored.enabled
                      /\ r2.op = "reschedule" =>
                            /\ stored.day = r2.day
                            /\ stored.hour = r2.hour
                            /\ stored.minute = r2.minute
                /\ (/\ r1.op \in {"enable", "disable"}
                    /\ r2.op = "reschedule"
                    /\ r2.user = r1.user)
                   => stored.enabled = (r1.op = "enable")

\* C29: after two concurrent start_scheduler calls on a stopped scheduler,
\* from lifespan startup and an enable request or from two enable requests,
\* exactly one BackgroundScheduler was created and started and the module
\* global holds it; and after a later stop_scheduler no scheduler runs.
C29_AtMostOneLiveScheduler ==
    /\ (/\ Answered
        /\ last.pre = None
        /\ \A t \in Threads : requests[t].op \in {"startup", "enable"})
       => /\ orphans = <<>>
          /\ Running(scheduler)
    /\ last.op = "stop" =>
          /\ scheduler = None
          /\ \A i \in DOMAIN orphans : ~orphans[i].running

====
